---- MODULE Spec2Model ----
(***************************************************************************)
(* Model of the server-side mission simulation of the drone management     *)
(* system: simulationService.js (registry of running simulations, the      *)
(* per-mission interval callback, the commands stop/pause/resume/setSpeed/ *)
(* triggerRTH), simulation/FlightDynamics.js (physics and battery), the    *)
(* path strategies and the socket handlers that call the service.          *)
(*                                                                         *)
(* Units.  The code computes in floating point with a step of 0.05 s.      *)
(* The model computes in integers: positions are metres along the meridian *)
(* through the flight path (all waypoints of the modelled survey areas     *)
(* share one longitude, so the haversine distance of two points is the     *)
(* absolute difference of their positions and the bearing is 0 or 180),    *)
(* altitude is in metres, speed in m/s, battery in thousandths of a        *)
(* percent, and one step of the interval callback advances time by dt = 1  *)
(* second (20 steps of the code folded into one), every per-step formula   *)
(* being the code's formula in dt.                                         *)
(***************************************************************************)
EXTENDS Integers, Sequences, FiniteSets, TLC

VARIABLES
    missions,     \* the missions table read by missionService.getMission
    simulations,  \* the registry Map: missionId -> run whose handle is stored (0: no entry)
    runs,         \* per startSimulation closure: dynamics, flightPath, currentWaypointIdx, frameCount
    interval,     \* per run: TRUE while its setInterval timer is active
    fired,        \* per run: its timer has fired in the current period of dt * 1000 ms
    pending,      \* per client socket: its startSimulation call suspended at
                  \* `await missionService.getMission`, or NoCall
    emitted,      \* per run: number of mission:status 'started' / 'completed' / 'aborted' events
    stopped,      \* per mission: a stopSimulation returned and no start call was issued since
    pauseSnap,    \* per mission: what pauseSimulation saw, until the next resume
    lastOp,       \* the operation performed by the last step and its outcome
    cmds,         \* number of commands received from clients so far
    drones,       \* the drones table (status)
    missionLogs,  \* the mission_logs table, in order of creation
    requests,     \* per HTTP client: its service call suspended at an await, or NoRequest
    generated,    \* a call of a path generator: its arguments and, once made, its result
    engine        \* a client FlightSimulationEngine: its state, handle and active timers

vars == <<missions, simulations, runs, interval, fired, pending, emitted, stopped, pauseSnap, lastOp, cmds,
          drones, missionLogs, requests, generated, engine>>

----------------------------------------------------------------------------
\* Bounds of the model

MaxRuns == 2        \* closures (successful starts) created in one behaviour
MaxCmds == 3        \* client commands received in one behaviour
MaxFrames == 45     \* interval callbacks of one run (frameCount)
MaxCalls == 5       \* calls made on one FlightDynamics instance taken alone
MaxRequests == 3    \* mission control requests received in one behaviour

RunIds == 1..MaxRuns
MissionIds == {"m1", "m2"}
Sockets == {"s1", "s2"}      \* connected clients; each has at most one start in flight
Clients == {"c1", "c2"}      \* HTTP clients; each has at most one request in flight
DroneIds == {"d1"}
NoDrone == "none"
NoPattern == "none"
Overrides == {NoPattern}
SpeedInputs == {0, 25}

----------------------------------------------------------------------------
\* Program constants (scaled to the model's units)

dt == 1
CruiseAltitude == 50
ClimbRate == 5
DescentRate == 2
ArrivalRadius == 5
InitialBattery == 100000
BatteryFull == 100000
RthThreshold == 20000
BaseDrain == 50
SpeedDrain == 100
HoverDrain == 80
ChargeRate == 2000
Acceleration == 2
MinTargetSpeed == 1
MaxTargetSpeed == 20
DefaultSpeed == 10
FullProgress == 100000
ConstructorMaxSpeed == 15
ConstructorBattery == 100000
ClientMinSpeed == 2
ClientMaxSpeed == 20
DocumentedMinSpeed == 2
DocumentedMaxSpeed == 20
NoDistance == 99999

Min(a, b) == IF a < b THEN a ELSE b
Max(a, b) == IF a > b THEN a ELSE b
Abs(a) == IF a < 0 THEN 0 - a ELSE a

----------------------------------------------------------------------------
\* The mission repository (missionService.getMission)

\* Rows of the missions table joined with their flight parameters.
\* m1: a ring on one meridian (its vertices in metres); m2: a survey area
\* without coordinates.
Rows(ring) ==
    [m \in MissionIds |->
        IF m = "m1"
        THEN [flight_pattern |-> "grid",
              survey_area |-> [type |-> "Polygon", hasCoordinates |-> TRUE,
                              coordinates |-> ring],
              speed |-> 0,
              status |-> "planned", started_at |-> "null", completed_at |-> "null",
              drone_id |-> "d1"]
        ELSE [flight_pattern |-> NoPattern,
              survey_area |-> [type |-> "Polygon", hasCoordinates |-> FALSE,
                              coordinates |-> <<>>],
              speed |-> 12,
              status |-> "planned", started_at |-> "null", completed_at |-> "null",
              drone_id |-> NoDrone]]

\* The drones table: every drone available
Drones == [d \in DroneIds |-> [status |-> "available"]]

\* The arguments and position of a suspended service call
NoRequest == [op |-> "none", m |-> "none", to |-> "none", from |-> "none",
              drone |-> NoDrone, pc |-> "none"]

\* No path generator has been called
NoGenerated == [generator |-> "none", pattern |-> "none", done |-> FALSE]

\* No engine has been constructed
NoEngine == [constructed |-> FALSE]

----------------------------------------------------------------------------
\* PathStrategies

SeqMin(s) == CHOOSE x \in {s[i] : i \in 1..Len(s)} : \A j \in 1..Len(s) : x <= s[j]
SeqMax(s) == CHOOSE x \in {s[i] : i \in 1..Len(s)} : \A j \in 1..Len(s) : x >= s[j]

\* One sweep line: the bounding box of the ring has zero width, so the loop
\* `while (x <= bbox[2])` runs once and pushes (yStart, x), (yEnd, x) with movingUp.
\* An empty ring has the bounding box [Inf, Inf, -Inf, -Inf] and the loop never runs.
generateGridPath(surveyArea) ==
    LET ring == surveyArea.coordinates
    IN  IF Len(ring) = 0 THEN <<>> ELSE <<SeqMin(ring), SeqMax(ring)>>

generatePerimeterPath(surveyArea) ==
    IF surveyArea.type = "Polygon" THEN surveyArea.coordinates ELSE <<>>

generateHatchPath(surveyArea) == generateGridPath(surveyArea)

generate(type, surveyArea) ==
    IF ~surveyArea.hasCoordinates THEN <<>>
    ELSE CASE type = "grid" -> generateGridPath(surveyArea)
           [] type = "perimeter" -> generatePerimeterPath(surveyArea)
           [] type = "hatch" -> generateHatchPath(surveyArea)
           [] type = "waypoint" -> surveyArea.coordinates
           [] OTHER -> generateGridPath(surveyArea)

\* flightPatternOverride || mission.flight_pattern || 'grid'
choosePattern(override, mission) ==
    IF override # NoPattern THEN override
    ELSE IF mission.flight_pattern # NoPattern THEN mission.flight_pattern
    ELSE "grid"

pathIsEmptyNever(flightPath) == FALSE

\* `!flightPath || flightPath.length === 0`
pathIsEmpty(flightPath) == Len(flightPath) = 0

----------------------------------------------------------------------------
\* FlightDynamics

setTargetSpeed(speed) == Max(MinTargetSpeed, Min(MaxTargetSpeed, speed))

\* The client's FlightSimulationEngine.setSpeed: the targetSpeed it stores
engineSetSpeed(speed) == Max(ClientMinSpeed, Min(ClientMaxSpeed, speed))

\* mission.parameters?.speed || 10
missionSpeed(mission) == IF mission.speed = 0 THEN DefaultSpeed ELSE mission.speed

\* A target is <<>> (null / undefined) or <<position>>.
waypointAt(flightPath, i) == IF i \in 1..Len(flightPath) THEN <<flightPath[i]>> ELSE <<>>

getDistance(p1, target) == IF target = <<>> THEN NoDistance ELSE Abs(target[1] - p1)

updateMovement(d, target) ==
    IF target = <<>> THEN d
    ELSE LET t == target[1]
             distance == Abs(t - d.position)
             desiredSpeed == Min(d.maxSpeed, distance)
             speed == IF d.speed < desiredSpeed
                      THEN Min(d.speed + Acceleration * dt, desiredSpeed)
                      ELSE Max(d.speed - Acceleration * dt, desiredSpeed)
         IN  IF 2 * distance > 1
             THEN [d EXCEPT !.speed = speed,
                            !.heading = IF t > d.position THEN 0 ELSE 180,
                            !.position = IF t > d.position
                                         THEN d.position + speed * dt
                                         ELSE d.position - speed * dt]
             ELSE [d EXCEPT !.speed = speed]

updateBattery(d) ==
    LET drainRate == IF d.state = "FLYING"
                     THEN BaseDrain + (d.speed * SpeedDrain) \div d.maxSpeed
                     ELSE IF d.state = "HOVERING" THEN HoverDrain
                     ELSE BaseDrain
    IN  [d EXCEPT !.battery = Max(0, d.battery - drainRate * dt)]

\* Charging without the cap at 100
updateChargingUncapped(d) == [d EXCEPT !.battery = d.battery + ChargeRate * dt]

updateCharging(d) ==
    LET battery == Min(BatteryFull, d.battery + ChargeRate * dt)
    IN  [d EXCEPT !.battery = battery,
                  !.state = IF battery >= BatteryFull THEN "IDLE" ELSE d.state]

update(d, target) ==
    IF d.state = "CHARGING" THEN updateCharging(d)
    ELSE IF d.state \in {"FLYING", "RTH"} THEN updateBattery(updateMovement(d, target))
    ELSE updateBattery(d)

----------------------------------------------------------------------------
\* Runs

NoRun ==
    [used |-> FALSE, missionId |-> "none", flightPath |-> <<>>, currentWaypointIdx |-> 0,
     frameCount |-> 0, position |-> 0, altitude |-> 0, speed |-> 0,
     maxSpeed |-> ConstructorMaxSpeed, heading |-> 0, battery |-> InitialBattery,
     state |-> "IDLE"]

\* new FlightDynamics({position: flightPath[0], altitude: 0, battery: 100}),
\* state = 'TAKEOFF', setTargetSpeed(...), currentWaypointIdx = 0, frameCount = 0
newRun(missionId, mission, flightPath) ==
    [NoRun EXCEPT !.used = TRUE, !.missionId = missionId, !.flightPath = flightPath,
                  !.position = IF Len(flightPath) > 0 THEN flightPath[1] ELSE 0,
                  !.maxSpeed = setTargetSpeed(missionSpeed(mission)),
                  !.state = "TAKEOFF"]

NoEvents == [started |-> 0, completed |-> 0, aborted |-> 0]

\* What a client can observe of a run's dynamics and cursor.
Observed(run) ==
    [position |-> run.position, altitude |-> run.altitude, speed |-> run.speed,
     heading |-> run.heading, battery |-> run.battery, state |-> run.state,
     currentWaypointIdx |-> run.currentWaypointIdx]

NoSnap == [r |-> 0, obs |-> Observed(NoRun), clean |-> FALSE]

NoOp ==
    [op |-> "init", m |-> "none", r |-> 0, res |-> "ok", trans |-> <<>>,
     socket |-> "none", override |-> NoPattern, found |-> FALSE, speed |-> 0,
     progress |-> 0, events |-> <<>>]

RECURSIVE Compress(_)
\* The lifecycle states a step went through, without repetitions.
Compress(s) ==
    IF Len(s) <= 1 THEN s
    ELSE IF s[1] = s[2] THEN Compress(Tail(s))
    ELSE <<s[1]>> \o Compress(Tail(s))

\* Timers.  Every run's timer has the same period, setInterval(..., dt * 1000), so
\* between two firings of one active timer every other active timer fires once:
\* `f` marks the timers that have fired in the current period, and a new period
\* begins when every active timer has fired.  A timer created during a period
\* first fires in the next one.
period(iv, f) ==
    IF \A r \in RunIds : iv[r] => f[r]
    THEN [r \in RunIds |-> FALSE]
    ELSE [r \in RunIds |-> iv[r] /\ f[r]]

\* The arguments of a suspended startSimulation call
NoCall == [m |-> "none", override |-> NoPattern]

Init ==
    /\ missions = Rows(<<0, 8, 0>>)
    /\ simulations = [m \in MissionIds |-> 0]
    /\ runs = [r \in RunIds |-> NoRun]
    /\ interval = [r \in RunIds |-> FALSE]
    /\ fired = [r \in RunIds |-> FALSE]
    /\ pending = [s \in Sockets |-> NoCall]
    /\ emitted = [r \in RunIds |-> NoEvents]
    /\ stopped = [m \in MissionIds |-> FALSE]
    /\ pauseSnap = [m \in MissionIds |-> NoSnap]
    /\ lastOp = NoOp
    /\ cmds = 0
    /\ drones = Drones
    /\ missionLogs = <<>>
    /\ requests = [c \in Clients |-> NoRequest]
    /\ generated = NoGenerated
    /\ engine = NoEngine

----------------------------------------------------------------------------
\* simulationService.startSimulation, up to `await missionService.getMission`

hasSimulationNever(m) == FALSE

\* simulations.has(missionId)
hasSimulation(m) == simulations[m] # 0

StartCall(socket, m, override) ==
    /\ pending[socket] = NoCall
    /\ cmds < MaxCmds
    /\ cmds' = cmds + 1
    /\ stopped' = [stopped EXCEPT ![m] = FALSE]
    /\ IF hasSimulation(m)
       THEN /\ lastOp' = [NoOp EXCEPT !.op = "start", !.m = m, !.r = simulations[m],
                                      !.res = "noop", !.override = override]
            /\ UNCHANGED pending
       ELSE /\ pending' = [pending EXCEPT ![socket] = [m |-> m, override |-> override]]
            /\ lastOp' = [NoOp EXCEPT !.op = "start", !.m = m, !.res = "awaiting",
                                      !.override = override]
    /\ UNCHANGED <<generated, engine, drones, missionLogs, requests, missions, simulations, runs, interval, fired, emitted, pauseSnap>>

\* startSimulation after the await: the error it throws, or "ok"
startOutcome(found, flightPath) ==
    IF ~found THEN "Mission not found"
    ELSE IF pathIsEmpty(flightPath) THEN "Could not generate flight path"
    ELSE "ok"

FreeRuns == {r \in RunIds : ~runs[r].used}

\* The awaited lookup of a suspended call settles: found, or rejected
\* (getMission throws 'Mission not found', or the query fails).
StartResume(socket, found) ==
    /\ pending[socket] # NoCall
    /\ LET call == pending[socket]
           m == call.m
           mission == missions[m]
           flightPattern == choosePattern(call.override, mission)
           flightPath == generate(flightPattern, mission.survey_area)
           outcome == startOutcome(found, flightPath)
       IN  /\ pending' = [pending EXCEPT ![socket] = NoCall]
           /\ IF outcome # "ok"
              THEN /\ lastOp' = [NoOp EXCEPT !.op = "resolve", !.m = m, !.res = outcome,
                                             !.socket = socket,
                                             !.override = call.override, !.found = found]
                   /\ UNCHANGED <<simulations, runs, interval, fired, emitted>>
              ELSE /\ FreeRuns # {}
                   /\ LET r == CHOOSE x \in FreeRuns : \A y \in FreeRuns : x <= y
                      IN  /\ runs' = [runs EXCEPT ![r] = newRun(m, mission, flightPath)]
                          /\ emitted' = [emitted EXCEPT ![r].started = @ + 1]
                          /\ interval' = [interval EXCEPT ![r] = TRUE]
                          /\ fired' = period(interval', [fired EXCEPT ![r] = TRUE])
                          /\ simulations' = [simulations EXCEPT ![m] = r]
                          /\ lastOp' = [NoOp EXCEPT !.op = "resolve", !.m = m, !.r = r,
                                                    !.socket = socket,
                                                    !.res = "ok", !.trans = <<"IDLE", "TAKEOFF">>,
                                                    !.override = call.override, !.found = found]
    /\ UNCHANGED <<generated, engine, drones, missionLogs, requests, missions, stopped, pauseSnap, cmds>>

----------------------------------------------------------------------------
\* simulationService.stopSimulation: clearInterval(sim.intervalId); simulations.delete

intervalAfterStop(m) ==
    IF hasSimulation(m) THEN [interval EXCEPT ![simulations[m]] = FALSE] ELSE interval

simulationsAfterStop(m) ==
    IF hasSimulation(m) THEN [simulations EXCEPT ![m] = 0] ELSE simulations

\* socket.on('simulation:stop')
StopSimulation(m) ==
    /\ cmds < MaxCmds
    /\ cmds' = cmds + 1
    /\ interval' = intervalAfterStop(m)
    /\ fired' = period(interval', fired)
    /\ simulations' = simulationsAfterStop(m)
    /\ stopped' = [stopped EXCEPT ![m] = TRUE]
    /\ pauseSnap' = [pauseSnap EXCEPT ![m] = NoSnap]
    /\ lastOp' = [NoOp EXCEPT !.op = "stop", !.m = m, !.r = simulations[m],
                              !.res = IF hasSimulation(m) THEN "stopped" ELSE "noop"]
    /\ UNCHANGED <<generated, engine, drones, missionLogs, requests, missions, runs, pending, emitted>>

\* simulationService.pauseSimulation: clearInterval, the entry stays in the map
intervalAfterPause(m) ==
    IF hasSimulation(m) THEN [interval EXCEPT ![simulations[m]] = FALSE] ELSE interval

\* socket.on('simulation:pause')
PauseSimulation(m) ==
    /\ cmds < MaxCmds
    /\ cmds' = cmds + 1
    /\ interval' = intervalAfterPause(m)
    /\ fired' = period(interval', fired)
    /\ pauseSnap' = IF hasSimulation(m)
                    THEN [pauseSnap EXCEPT ![m] = [r |-> simulations[m],
                                                  obs |-> Observed(runs[simulations[m]]),
                                                  clean |-> TRUE]]
                    ELSE pauseSnap
    /\ lastOp' = [NoOp EXCEPT !.op = "pause", !.m = m, !.r = simulations[m],
                              !.res = IF hasSimulation(m) THEN "paused" ELSE "noop"]
    /\ UNCHANGED <<generated, engine, drones, missionLogs, requests, missions, simulations, runs, pending, emitted, stopped>>

\* simulationService.resumeSimulation: the body is empty
intervalAfterResume(m) == interval

\* socket.on('simulation:resume')
ResumeSimulation(m) ==
    /\ cmds < MaxCmds
    /\ cmds' = cmds + 1
    /\ interval' = intervalAfterResume(m)
    /\ fired' = period(interval', fired)
    /\ pauseSnap' = [pauseSnap EXCEPT ![m] = NoSnap]
    /\ lastOp' = [NoOp EXCEPT !.op = "resume", !.m = m, !.r = simulations[m],
                              !.res = IF pauseSnap[m].r # 0 /\ pauseSnap[m].r = simulations[m]
                                      THEN "after-pause" ELSE "noop"]
    /\ UNCHANGED <<generated, engine, drones, missionLogs, requests, missions, simulations, runs, pending, emitted, stopped>>

\* socket.on('simulation:setSpeed') -> simulationService.setSpeed
SetSpeed(m, speed) ==
    /\ cmds < MaxCmds
    /\ cmds' = cmds + 1
    /\ runs' = IF hasSimulation(m)
               THEN [runs EXCEPT ![simulations[m]].maxSpeed = setTargetSpeed(speed)]
               ELSE runs
    /\ pauseSnap' = [pauseSnap EXCEPT ![m].clean = FALSE]
    /\ lastOp' = [NoOp EXCEPT !.op = "setSpeed", !.m = m, !.r = simulations[m],
                              !.res = IF hasSimulation(m) THEN "set" ELSE "noop",
                              !.speed = speed]
    /\ UNCHANGED <<generated, engine, drones, missionLogs, requests, missions, simulations, interval, fired, pending, emitted, stopped>>

\* simulationService.triggerRTH: sim.dynamics.state = 'RTH'
stateAfterTriggerRTH(state) == "RTH"

\* socket.on('simulation:rth')
TriggerRTH(m) ==
    /\ cmds < MaxCmds
    /\ cmds' = cmds + 1
    /\ runs' = IF hasSimulation(m)
               THEN [runs EXCEPT ![simulations[m]].state = stateAfterTriggerRTH(@)]
               ELSE runs
    /\ pauseSnap' = [pauseSnap EXCEPT ![m].clean = FALSE]
    /\ lastOp' = [NoOp EXCEPT !.op = "rth", !.m = m, !.r = simulations[m],
                              !.res = IF hasSimulation(m) THEN "set" ELSE "noop",
                              !.trans = IF hasSimulation(m)
                                        THEN Compress(<<runs[simulations[m]].state,
                                               stateAfterTriggerRTH(runs[simulations[m]].state)>>)
                                        ELSE <<>>]
    /\ UNCHANGED <<generated, engine, drones, missionLogs, requests, missions, simulations, interval, fired, pending, emitted, stopped>>

----------------------------------------------------------------------------
\* The interval callback of startSimulation

pathConsumedNever(idx, flightPath) == FALSE

\* currentWaypointIdx >= flightPath.length
pathConsumed(idx, flightPath) == idx >= Len(flightPath)

\* 1. Determine Target: the state-dependent branch before dynamics.update
determineTarget(run) ==
    LET home == waypointAt(run.flightPath, 1)
    IN  CASE run.state = "TAKEOFF" ->
               [d |-> IF run.altitude < CruiseAltitude
                      THEN [run EXCEPT !.altitude = @ + ClimbRate * dt]
                      ELSE [run EXCEPT !.state = "FLYING"],
                target |-> home, landed |-> FALSE]
          [] run.state = "FLYING" ->
               LET target == waypointAt(run.flightPath, run.currentWaypointIdx + 1)
                   reached == getDistance(run.position, target) < ArrivalRadius
                   idx == IF reached THEN run.currentWaypointIdx + 1
                          ELSE run.currentWaypointIdx
               IN  [d |-> [run EXCEPT !.currentWaypointIdx = idx,
                                      !.state = IF reached /\ pathConsumed(idx, run.flightPath)
                                                THEN "RTH" ELSE @],
                    target |-> target, landed |-> FALSE]
          [] run.state = "RTH" ->
               [d |-> IF getDistance(run.position, home) < ArrivalRadius
                      THEN [run EXCEPT !.state = "LANDING"] ELSE run,
                target |-> home, landed |-> FALSE]
          [] run.state = "LANDING" ->
               [d |-> IF run.altitude > 0
                      THEN [run EXCEPT !.altitude = @ - DescentRate * dt]
                      ELSE [run EXCEPT !.state = "CHARGING"],
                target |-> home, landed |-> ~(run.altitude > 0)]
          [] OTHER -> [d |-> run, target |-> <<>>, landed |-> FALSE]

\* The share of the waypoints that is still ahead
progressRemaining(run) ==
    Min(FullProgress,
        ((Len(run.flightPath) - run.currentWaypointIdx) * FullProgress) \div Len(run.flightPath))

\* Math.min(100, (currentWaypointIdx / flightPath.length) * 100), in thousandths of a percent
progress(run) ==
    Min(FullProgress, (run.currentWaypointIdx * FullProgress) \div Len(run.flightPath))

\* The events one callback publishes, in order: the LANDING branch publishes
\* mission:status 'completed' before dynamics.update, and every callback publishes
\* telemetry:update and mission:progress after it.
published(landed) ==
    (IF landed THEN <<"mission:status completed">> ELSE <<>>)
        \o <<"telemetry:update", "mission:progress">>

checkBatteryRTHNever(d) == d

\* 4. Check Battery RTH
checkBatteryRTH(d) ==
    IF d.battery < RthThreshold /\ d.state = "FLYING" THEN [d EXCEPT !.state = "RTH"] ELSE d

Tick(r) ==
    /\ interval[r]
    /\ ~fired[r]
    /\ runs[r].frameCount < MaxFrames
    /\ \E s1 \in {determineTarget([runs[r] EXCEPT !.frameCount = @ + 1])} :
       \E d2 \in {update(s1.d, s1.target)} :
       \E d3 \in {checkBatteryRTH(d2)} :
       LET m == runs[r].missionId
       IN  /\ runs' = [runs EXCEPT ![r] = d3]
           /\ interval' = IF s1.landed THEN intervalAfterStop(m) ELSE interval
           /\ fired' = period(interval', [fired EXCEPT ![r] = TRUE])
           /\ simulations' = IF s1.landed THEN simulationsAfterStop(m) ELSE simulations
           /\ emitted' = IF s1.landed THEN [emitted EXCEPT ![r].completed = @ + 1]
                         ELSE emitted
           /\ lastOp' = [NoOp EXCEPT !.op = "tick", !.m = m, !.r = r,
                                     !.res = IF s1.landed THEN "completed" ELSE "ok",
                                     !.progress = progress(d2),
                                     !.events = published(s1.landed),
                                     !.trans = Compress(<<runs[r].state, s1.d.state,
                                                          d2.state, d3.state>>)]
    /\ UNCHANGED <<generated, engine, drones, missionLogs, requests, missions, pending, stopped, pauseSnap, cmds>>

----------------------------------------------------------------------------

Next ==
    \/ \E socket \in Sockets, m \in MissionIds, o \in Overrides : StartCall(socket, m, o)
    \/ \E socket \in Sockets, found \in BOOLEAN : StartResume(socket, found)
    \/ \E m \in MissionIds : StopSimulation(m)
    \/ \E m \in MissionIds : PauseSimulation(m)
    \/ \E m \in MissionIds : ResumeSimulation(m)
    \/ \E m \in MissionIds, speed \in SpeedInputs : SetSpeed(m, speed)
    \/ \E m \in MissionIds : TriggerRTH(m)
    \/ \E r \in RunIds : Tick(r)

Spec == Init /\ [][Next]_vars

\* A service with one simulation in mid-flight: mission m1 surveys a ring of
\* 8 km, its run has taken off and flown for some nine minutes towards the
\* second waypoint, and its battery is close to the RTH threshold.
InitMidFlight ==
    /\ missions = Rows(<<0, 8000, 0>>)
    /\ simulations = [m \in MissionIds |-> IF m = "m1" THEN 1 ELSE 0]
    /\ \E battery \in {RthThreshold, RthThreshold + 100, RthThreshold + 250},
          position \in {5300, 7990} :
          runs = [r \in RunIds |->
                    IF r = 1
                    THEN [newRun("m1", missions["m1"], <<0, 8000>>) EXCEPT
                              !.state = "FLYING", !.altitude = CruiseAltitude,
                              !.currentWaypointIdx = 1, !.position = position,
                              !.speed = 10, !.battery = battery,
                              !.frameCount = 30]
                    ELSE NoRun]
    /\ interval = [r \in RunIds |-> r = 1]
    /\ fired = [r \in RunIds |-> FALSE]
    /\ pending = [s \in Sockets |-> NoCall]
    /\ emitted = [r \in RunIds |-> IF r = 1 THEN [NoEvents EXCEPT !.started = 1]
                                   ELSE NoEvents]
    /\ stopped = [m \in MissionIds |-> FALSE]
    /\ pauseSnap = [m \in MissionIds |-> NoSnap]
    /\ lastOp = NoOp
    /\ cmds = 1
    /\ drones = Drones
    /\ missionLogs = <<>>
    /\ requests = [c \in Clients |-> NoRequest]
    /\ generated = NoGenerated
    /\ engine = NoEngine

SpecMidFlight == InitMidFlight /\ [][Next]_vars

----------------------------------------------------------------------------
\* Properties

RunsOf(m) == {r \in RunIds : runs[r].used /\ runs[r].missionId = m}

\* C1: for every missionId at most one tick timer is running at any time (the
\* registry, a Map, holds at most one handle per missionId by construction),
\* also when a second start is issued while the first awaits the mission lookup.
OneTimerPerMission ==
    \A m \in MissionIds : Cardinality({r \in RunsOf(m) : interval[r]}) <= 1

\* C2: a start call for a missionId that has a registered handle returns without
\* error and changes nothing: no timer, no event, no suspended call, and the
\* registered handle, its flight path, cursor and dynamics stay as they were.
StartOnRegisteredIsNoOp ==
    [][(lastOp'.op = "start" /\ simulations[lastOp'.m] # 0)
         => /\ lastOp'.res = "noop"
            /\ simulations'[lastOp'.m] = simulations[lastOp'.m]
            /\ UNCHANGED <<simulations, runs, interval, fired, pending, emitted>>]_vars

StartOnRegisteredSeen ==
    /\ lastOp.op = "start"
    /\ lastOp.res = "noop"
    /\ lastOp.r # 0
    /\ simulations[lastOp.m] = lastOp.r
    /\ interval[lastOp.r]

\* C3: after stopSimulation(m) returned and until a start call issued after it,
\* no handle exists for m and no tick of a run of m executes.
NoTickAfterStop ==
    \A m \in MissionIds :
        stopped[m] => /\ simulations[m] = 0
                      /\ ~(lastOp.op = "tick" /\ lastOp.m = m)

\* C4: a resume that follows a pause of a registered mission restarts the tick
\* timer of its run.
ResumeRestartsTick ==
    (lastOp.op = "resume" /\ lastOp.res = "after-pause") => interval[lastOp.r]

\* The lifecycle graph of the mission simulation controller
ActiveStates == {"TAKEOFF", "FLYING", "HOVERING", "RTH", "LANDING", "CHARGING"}

Edges ==
    {<<"IDLE", "TAKEOFF">>, <<"TAKEOFF", "FLYING">>, <<"FLYING", "RTH">>,
     <<"RTH", "LANDING">>, <<"LANDING", "CHARGING">>, <<"CHARGING", "IDLE">>}
    \cup {<<a, "PAUSED">> : a \in ActiveStates}
    \cup {<<"PAUSED", a>> : a \in ActiveStates}
    \cup {<<a, "ABORTED">> : a \in ActiveStates}

\* C5: every change of lifecycle state made by a step is an edge of the graph.
TransitionsFollowGraph ==
    \A i \in 1..(Len(lastOp.trans) - 1) :
        <<lastOp.trans[i], lastOp.trans[i + 1]>> \in Edges

\* C6: stopSimulation on a registered mission cancels its timer, removes its
\* handle and leaves the lifecycle state ABORTED.
StopLeavesAborted ==
    (lastOp.op = "stop" /\ lastOp.res = "stopped")
        => /\ ~interval[lastOp.r]
           /\ simulations[lastOp.m] = 0
           /\ runs[lastOp.r].state = "ABORTED"

\* A run has ended: it was started, its timer is cancelled and it is not registered.
RunEnded(r) ==
    runs[r].used /\ ~interval[r] /\ simulations[runs[r].missionId] # r

\* C7: every run publishes exactly one 'started' status, at most one terminal
\* status ('completed' or 'aborted'), and exactly one once it has ended.
OneStartedOneTerminal ==
    \A r \in RunIds :
        runs[r].used =>
            /\ emitted[r].started = 1
            /\ emitted[r].completed + emitted[r].aborted <= 1
            /\ RunEnded(r) => emitted[r].completed + emitted[r].aborted = 1

\* C8: from pauseSimulation(m) to the next resume, without setSpeed, triggerRTH
\* or stop in between, the handle stays registered, no tick of m runs, and the
\* dynamics and the cursor are those seen at the pause.
PausedRunIsFrozen ==
    \A m \in MissionIds :
        (pauseSnap[m].r # 0 /\ pauseSnap[m].clean)
            => /\ simulations[m] = pauseSnap[m].r
               /\ Observed(runs[pauseSnap[m].r]) = pauseSnap[m].obs
               /\ ~(lastOp.op = "tick" /\ lastOp.m = m)

\* The mission of a call cannot be simulated: the lookup fails or the path is empty.
CannotSimulate(m, override, found) ==
    \/ ~found
    \/ Len(generate(choosePattern(override, missions[m]), missions[m].survey_area)) = 0

\* C9: when the lookup fails or the generated path is empty, startSimulation
\* throws, the error goes to the calling socket, and nothing begins: no handle,
\* no timer, no run, no event.
FailedStartBeginsNothing ==
    [][(lastOp'.op = "resolve"
           /\ CannotSimulate(lastOp'.m, lastOp'.override, lastOp'.found))
         => /\ lastOp'.res \in {"Mission not found", "Could not generate flight path"}
            /\ lastOp'.socket \in Sockets
            /\ UNCHANGED <<simulations, runs, interval, fired, emitted>>]_vars

FailedStartSeen ==
    /\ lastOp.op = "resolve"
    /\ lastOp.found
    /\ lastOp.res = "Could not generate flight path"
    /\ simulations[lastOp.m] = 0

\* C10: at the end of every tick, and so at the start of the next, no run is
\* FLYING with its battery below the RTH threshold.
NeverFlyingBelowThreshold ==
    \A r \in RunIds :
        runs[r].used => ~(runs[r].state = "FLYING" /\ runs[r].battery < RthThreshold)

LowBatteryForcedRTH ==
    /\ lastOp.op = "tick"
    /\ lastOp.trans = <<"FLYING", "RTH">>
    /\ runs[lastOp.r].battery < RthThreshold
    /\ runs[lastOp.r].currentWaypointIdx < Len(runs[lastOp.r].flightPath)

----------------------------------------------------------------------------
\* Scheduling.  An active setInterval timer keeps firing, and the promise of
\* the awaited mission lookup settles (it resolves or rejects).
Fairness ==
    /\ \A r \in RunIds : WF_vars(Tick(r))
    /\ \A socket \in Sockets : WF_vars(\E found \in BOOLEAN : StartResume(socket, found))

SpecFair == Init /\ [][Next]_vars /\ Fairness

\* The model gives every run MaxFrames callbacks; a run that has used them up
\* holds back the timer rounds of the others.
Capped == \E q \in RunIds : runs[q].frameCount >= MaxFrames

\* C11 (termination): a started run whose timer is not cancelled publishes
\* 'completed' (within the frames of the model).
TickingRunCompletes ==
    \A r \in RunIds :
        runs[r].used ~> (emitted[r].completed > 0 \/ ~interval[r] \/ Capped)

\* C11 (resources): a run that has published 'completed' went through LANDING
\* into CHARGING, its timer is cancelled and its handle is not in the registry.
CompletedRunIsReleased ==
    \A r \in RunIds :
        emitted[r].completed > 0
            => /\ ~interval[r]
               /\ simulations[runs[r].missionId] # r
               /\ runs[r].state \in {"CHARGING", "IDLE"}

----------------------------------------------------------------------------
\* A FlightDynamics instance taken alone (run 1 holds it): constructed with any
\* battery value, then driven by any sequence of update calls, assignments of
\* its state and setTargetSpeed calls.

LifecycleStates == {"IDLE", "TAKEOFF", "FLYING", "HOVERING", "RTH", "LANDING", "CHARGING"}
BatteryInputs == {0 - 5000, 0, 60, RthThreshold, BatteryFull - 50, BatteryFull, BatteryFull + 50000}
TargetInputs == {<<>>, <<0>>, <<30>>}

\* this.battery = initialState.battery || 100
constructBattery(battery) == IF battery = 0 THEN ConstructorBattery ELSE battery

\* new FlightDynamics({ battery })
newDynamics(battery) ==
    [NoRun EXCEPT !.used = TRUE, !.battery = constructBattery(battery)]

InitDynamics ==
    /\ missions = Rows(<<0, 8, 0>>)
    /\ simulations = [m \in MissionIds |-> 0]
    /\ \E battery \in BatteryInputs :
          runs = [r \in RunIds |-> IF r = 1 THEN newDynamics(battery) ELSE NoRun]
    /\ interval = [r \in RunIds |-> FALSE]
    /\ fired = [r \in RunIds |-> FALSE]
    /\ pending = [s \in Sockets |-> NoCall]
    /\ emitted = [r \in RunIds |-> NoEvents]
    /\ stopped = [m \in MissionIds |-> FALSE]
    /\ pauseSnap = [m \in MissionIds |-> NoSnap]
    /\ lastOp = NoOp
    /\ cmds = 0
    /\ drones = Drones
    /\ missionLogs = <<>>
    /\ requests = [c \in Clients |-> NoRequest]
    /\ generated = NoGenerated
    /\ engine = NoEngine

\* dynamics.update(dt, target)
DynUpdate(target) ==
    /\ cmds < MaxCalls
    /\ cmds' = cmds + 1
    /\ runs' = [runs EXCEPT ![1] = update(@, target)]
    /\ lastOp' = [NoOp EXCEPT !.op = "update", !.r = 1,
                              !.trans = Compress(<<runs[1].state, runs'[1].state>>)]
    /\ UNCHANGED <<generated, engine, drones, missionLogs, requests, missions, simulations, interval, fired, pending, emitted, stopped, pauseSnap>>

\* dynamics.state = ...
DynSetState(state) ==
    /\ cmds < MaxCalls
    /\ cmds' = cmds + 1
    /\ runs' = [runs EXCEPT ![1].state = state]
    /\ lastOp' = [NoOp EXCEPT !.op = "state", !.r = 1]
    /\ UNCHANGED <<generated, engine, drones, missionLogs, requests, missions, simulations, interval, fired, pending, emitted, stopped, pauseSnap>>

\* dynamics.setTargetSpeed(speed)
DynSetTargetSpeed(speed) ==
    /\ cmds < MaxCalls
    /\ cmds' = cmds + 1
    /\ runs' = [runs EXCEPT ![1].maxSpeed = setTargetSpeed(speed)]
    /\ lastOp' = [NoOp EXCEPT !.op = "setTargetSpeed", !.r = 1, !.speed = speed]
    /\ UNCHANGED <<generated, engine, drones, missionLogs, requests, missions, simulations, interval, fired, pending, emitted, stopped, pauseSnap>>

NextDynamics ==
    \/ \E target \in TargetInputs : DynUpdate(target)
    \/ \E state \in LifecycleStates : DynSetState(state)
    \/ \E speed \in SpeedInputs : DynSetTargetSpeed(speed)

SpecDynamics == InitDynamics /\ [][NextDynamics]_vars

\* C14: after every update the battery is within [0,100], whatever battery the
\* instance was constructed with.
BatteryWithinRange ==
    lastOp.op = "update" => runs[1].battery \in 0..BatteryFull

ChargingRunKeepsTicking ==
    \A r \in RunIds :
        (runs[r].used /\ runs[r].state = "CHARGING" /\ runs[r].battery < BatteryFull)
            => interval[r]

\* C17: after every tick (every dynamics.update) the speed of the run is within
\* [0, maxSpeed].
SpeedWithinLimit ==
    (lastOp.op = "tick") => runs[lastOp.r].speed \in 0..runs[lastOp.r].maxSpeed

\* The adjustable range the documentation gives for speed control
documentedClamp(speed) == Max(DocumentedMinSpeed, Min(DocumentedMaxSpeed, speed))

\* C18: setSpeed(m, s) on a registered mission leaves its speed limit at s
\* clamped to the documented range, on the server and in the client's engine,
\* and changes no other run.
SetSpeedClampsToDocumentedRange ==
    [][(lastOp'.op = "setSpeed" /\ lastOp'.res = "set")
         => /\ runs'[lastOp'.r].maxSpeed = documentedClamp(lastOp'.speed)
            /\ engineSetSpeed(lastOp'.speed) = documentedClamp(lastOp'.speed)
            /\ \A q \in RunIds \ {lastOp'.r} : runs'[q] = runs[q]]_vars

\* C12: the progress published by the tick that publishes 'completed', the last
\* of the run, is exactly 100.
CompletedAtFullProgress ==
    (lastOp.op = "tick" /\ lastOp.res = "completed") => lastOp.progress = FullProgress

\* C13: the progress published by a tick is within [0,100] and not below the one
\* published by the run's previous tick (computed from the cursor that tick left).
ProgressNeverDecreases ==
    [][lastOp'.op = "tick"
         => /\ lastOp'.progress \in 0..FullProgress
            /\ lastOp'.progress >= progress(runs[lastOp'.r])]_vars

ProgressAdvancedUnderCommands ==
    /\ lastOp.op = "tick"
    /\ lastOp.progress = FullProgress
    /\ runs[lastOp.r].frameCount > 1
    /\ runs[lastOp.r].maxSpeed = MaxTargetSpeed
    /\ runs[lastOp.r].state = "RTH"

----------------------------------------------------------------------------
\* missionControlService, with the other writer of missions.status
\* (missionService.updateMission).  A call is suspended at each `await`; the
\* steps of different calls interleave.

Statuses == {"planned", "starting", "in-progress", "paused", "aborted", "completed", "failed"}

\* CHECK (status IN (...)) of the missions table
SchemaStatuses == {"planned", "starting", "in-progress", "paused", "completed", "aborted"}

Terminal == {"completed", "aborted", "failed"}

\* Mission ids of requests: the rows of the table and an id without a row
MissionRefs == MissionIds \cup {"m9"}

VALID_TRANSITIONS ==
    [s \in Statuses |->
        CASE s = "planned" -> {"starting", "aborted"}
          [] s = "starting" -> {"in-progress", "aborted", "failed"}
          [] s = "in-progress" -> {"paused", "completed", "aborted", "failed"}
          [] s = "paused" -> {"in-progress", "aborted"}
          [] OTHER -> {}]

isValidTransitionAlways(currentState, targetState) == TRUE

\* (VALID_TRANSITIONS[currentState] || []).includes(targetState)
isValidTransition(currentState, targetState) ==
    IF currentState \in DOMAIN VALID_TRANSITIONS
    THEN targetState \in VALID_TRANSITIONS[currentState]
    ELSE FALSE

\* updates = { status: newState }, with started_at or completed_at = new Date()
statusUpdates(newState) ==
    [status |-> newState,
     started_at |-> newState = "starting",
     completed_at |-> newState \in {"completed", "aborted", "failed"}]

\* UPDATE missions SET <the fields of updates> WHERE id = ...
applyUpdates(row, updates) ==
    [row EXCEPT !.status = updates.status,
                !.started_at = IF updates.started_at THEN "set" ELSE @,
                !.completed_at = IF updates.completed_at THEN "set" ELSE @]

droneStatusFor(newState) ==
    IF newState \in {"starting", "in-progress"} THEN "in-mission" ELSE "available"

\* A call ends: its client is free again
endRequest(c) == requests' = [requests EXCEPT ![c] = NoRequest]

\* A call moves to its next await
moveRequest(c, request) == requests' = [requests EXCEPT ![c] = request]

mcOp(c, op, res, from) ==
    [NoOp EXCEPT !.op = op, !.socket = c, !.m = requests[c].m, !.res = res,
                 !.trans = <<from, requests[c].to>>]

\* _changeStatus(missionId, newState, ...) is called, also as pauseMission ('paused'),
\* resumeMission ('in-progress') and abortMission ('aborted')
ChangeStatusCall(c, m, newState) ==
    /\ requests[c] = NoRequest
    /\ cmds < MaxRequests
    /\ cmds' = cmds + 1
    /\ requests' = [requests EXCEPT ![c] = [NoRequest EXCEPT !.op = "changeStatus", !.m = m,
                                                          !.to = newState, !.pc = "find"]]
    /\ lastOp' = [NoOp EXCEPT !.op = "call", !.socket = c, !.m = m]
    /\ UNCHANGED <<missions, drones, missionLogs>>
    /\ UNCHANGED <<generated, engine, simulations, runs, interval, fired, pending, emitted, stopped, pauseSnap>>

\* startMission(missionId, userId) is called
StartMissionCall(c, m) ==
    /\ requests[c] = NoRequest
    /\ cmds < MaxRequests
    /\ cmds' = cmds + 1
    /\ requests' = [requests EXCEPT ![c] = [NoRequest EXCEPT !.op = "startMission", !.m = m,
                                                          !.to = "starting", !.pc = "start:find"]]
    /\ lastOp' = [NoOp EXCEPT !.op = "call", !.socket = c, !.m = m]
    /\ UNCHANGED <<missions, drones, missionLogs>>
    /\ UNCHANGED <<generated, engine, simulations, runs, interval, fired, pending, emitted, stopped, pauseSnap>>

\* confirmMissionStarted(missionId) is called
ConfirmCall(c, m) ==
    /\ requests[c] = NoRequest
    /\ cmds < MaxRequests
    /\ cmds' = cmds + 1
    /\ requests' = [requests EXCEPT ![c] = [NoRequest EXCEPT !.op = "confirm", !.m = m,
                                                          !.to = "in-progress",
                                                          !.pc = "confirm:find"]]
    /\ lastOp' = [NoOp EXCEPT !.op = "call", !.socket = c, !.m = m]
    /\ UNCHANGED <<missions, drones, missionLogs>>
    /\ UNCHANGED <<generated, engine, simulations, runs, interval, fired, pending, emitted, stopped, pauseSnap>>

\* missionService.updateMission(id, { status }) is called (PUT /api/missions/:id)
UpdateMissionCall(c, m, status) ==
    /\ requests[c] = NoRequest
    /\ cmds < MaxRequests
    /\ cmds' = cmds + 1
    /\ requests' = [requests EXCEPT ![c] = [NoRequest EXCEPT !.op = "updateMission", !.m = m,
                                                          !.to = status, !.pc = "put:find"]]
    /\ lastOp' = [NoOp EXCEPT !.op = "call", !.socket = c, !.m = m]
    /\ UNCHANGED <<missions, drones, missionLogs>>
    /\ UNCHANGED <<generated, engine, simulations, runs, interval, fired, pending, emitted, stopped, pauseSnap>>

\* startMission: Mission.findById resolved
SmFind(c) ==
    /\ requests[c].pc = "start:find"
    /\ LET rq == requests[c]
       IN  IF rq.m \notin DOMAIN missions
           THEN endRequest(c) /\ lastOp' = mcOp(c, "start:find", "Mission not found", "none")
           ELSE IF missions[rq.m].drone_id = NoDrone
           THEN endRequest(c) /\ lastOp' = mcOp(c, "start:find", "No drone assigned", "none")
           ELSE /\ moveRequest(c, [rq EXCEPT !.drone = missions[rq.m].drone_id,
                                             !.pc = "start:drone"])
                /\ lastOp' = mcOp(c, "start:find", "ok", "none")
    /\ UNCHANGED <<missions, drones, missionLogs, cmds>>
    /\ UNCHANGED <<generated, engine, simulations, runs, interval, fired, pending, emitted, stopped, pauseSnap>>

\* startMission: Drone.findById resolved; then _changeStatus(missionId, 'starting')
SmDrone(c) ==
    /\ requests[c].pc = "start:drone"
    /\ LET rq == requests[c]
       IN  IF drones[rq.drone].status # "available"
           THEN endRequest(c) /\ lastOp' = mcOp(c, "start:drone", "Drone is not available", "none")
           ELSE /\ moveRequest(c, [rq EXCEPT !.pc = "find"])
                /\ lastOp' = mcOp(c, "start:drone", "ok", "none")
    /\ UNCHANGED <<missions, drones, missionLogs, cmds>>
    /\ UNCHANGED <<generated, engine, simulations, runs, interval, fired, pending, emitted, stopped, pauseSnap>>

\* _changeStatus: Mission.findById resolved, the transition is validated
CsFind(c) ==
    /\ requests[c].pc = "find"
    /\ LET rq == requests[c]
       IN  IF rq.m \notin DOMAIN missions
           THEN endRequest(c) /\ lastOp' = mcOp(c, "find", "Mission not found", "none")
           ELSE IF ~isValidTransition(missions[rq.m].status, rq.to)
           THEN endRequest(c)
                /\ lastOp' = mcOp(c, "find", "Invalid transition", missions[rq.m].status)
           ELSE /\ moveRequest(c, [rq EXCEPT !.from = missions[rq.m].status,
                                             !.drone = missions[rq.m].drone_id,
                                             !.pc = "update"])
                /\ lastOp' = mcOp(c, "find", "valid", missions[rq.m].status)
    /\ UNCHANGED <<missions, drones, missionLogs, cmds>>
    /\ UNCHANGED <<generated, engine, simulations, runs, interval, fired, pending, emitted, stopped, pauseSnap>>

\* _changeStatus: await Mission.update(missionId, updates)
CsUpdateMission(c) ==
    /\ requests[c].pc = "update"
    /\ LET rq == requests[c]
       IN  IF rq.to \notin SchemaStatuses
           THEN /\ endRequest(c)
                /\ lastOp' = mcOp(c, "update", "check constraint", rq.from)
                /\ UNCHANGED missions
           ELSE /\ missions' = [missions EXCEPT ![rq.m] = applyUpdates(@, statusUpdates(rq.to))]
                /\ moveRequest(c, [rq EXCEPT !.pc = IF rq.drone # NoDrone THEN "drone"
                                                    ELSE "log"])
                /\ lastOp' = mcOp(c, "update", "ok", rq.from)
    /\ UNCHANGED <<drones, missionLogs, cmds>>
    /\ UNCHANGED <<generated, engine, simulations, runs, interval, fired, pending, emitted, stopped, pauseSnap>>

\* _changeStatus: await Drone.update(mission.drone_id, { status: droneStatus })
CsUpdateDrone(c) ==
    /\ requests[c].pc = "drone"
    /\ LET rq == requests[c]
       IN  /\ drones' = [drones EXCEPT ![rq.drone].status = droneStatusFor(rq.to)]
           /\ moveRequest(c, [rq EXCEPT !.pc = "log"])
           /\ lastOp' = mcOp(c, "drone", "ok", rq.from)
    /\ UNCHANGED <<missions, missionLogs, cmds>>
    /\ UNCHANGED <<generated, engine, simulations, runs, interval, fired, pending, emitted, stopped, pauseSnap>>

\* _changeStatus: await MissionLog.create(...), then the mission is read and returned
CsLog(c) ==
    /\ requests[c].pc = "log"
    /\ LET rq == requests[c]
       IN  /\ missionLogs' = Append(missionLogs,
                                    [mission_id |-> rq.m, from |-> rq.from, to |-> rq.to])
           /\ endRequest(c)
           /\ lastOp' = mcOp(c, "log", "ok", rq.from)
    /\ UNCHANGED <<missions, drones, cmds>>
    /\ UNCHANGED <<generated, engine, simulations, runs, interval, fired, pending, emitted, stopped, pauseSnap>>

\* confirmMissionStarted: Mission.findById resolved
CmFind(c) ==
    /\ requests[c].pc = "confirm:find"
    /\ LET rq == requests[c]
       IN  IF rq.m \notin DOMAIN missions
           THEN endRequest(c) /\ lastOp' = mcOp(c, "confirm:find", "TypeError", "none")
           ELSE IF missions[rq.m].status = "starting"
           THEN /\ moveRequest(c, [rq EXCEPT !.from = "starting", !.pc = "confirm:update"])
                /\ lastOp' = mcOp(c, "confirm:find", "ok", "starting")
           ELSE endRequest(c)
                /\ lastOp' = mcOp(c, "confirm:find", "noop", missions[rq.m].status)
    /\ UNCHANGED <<missions, drones, missionLogs, cmds>>
    /\ UNCHANGED <<generated, engine, simulations, runs, interval, fired, pending, emitted, stopped, pauseSnap>>

\* confirmMissionStarted: await Mission.update(missionId, { status: 'in-progress' })
CmUpdate(c) ==
    /\ requests[c].pc = "confirm:update"
    /\ LET rq == requests[c]
       IN  /\ missions' = [missions EXCEPT ![rq.m].status = "in-progress"]
           /\ endRequest(c)
           /\ lastOp' = mcOp(c, "confirm:update", "ok", rq.from)
    /\ UNCHANGED <<drones, missionLogs, cmds>>
    /\ UNCHANGED <<generated, engine, simulations, runs, interval, fired, pending, emitted, stopped, pauseSnap>>

\* updateMission: Mission.findById resolved
UmFind(c) ==
    /\ requests[c].pc = "put:find"
    /\ LET rq == requests[c]
       IN  IF rq.m \notin DOMAIN missions
           THEN endRequest(c) /\ lastOp' = mcOp(c, "put:find", "Mission not found", "none")
           ELSE IF missions[rq.m].status # "planned"
           THEN endRequest(c)
                /\ lastOp' = mcOp(c, "put:find", "Cannot modify mission after it has started",
                                  missions[rq.m].status)
           ELSE /\ moveRequest(c, [rq EXCEPT !.from = "planned", !.pc = "put:update"])
                /\ lastOp' = mcOp(c, "put:find", "ok", "planned")
    /\ UNCHANGED <<missions, drones, missionLogs, cmds>>
    /\ UNCHANGED <<generated, engine, simulations, runs, interval, fired, pending, emitted, stopped, pauseSnap>>

\* updateMission: await Mission.update(id, missionUpdates)
UmUpdate(c) ==
    /\ requests[c].pc = "put:update"
    /\ LET rq == requests[c]
       IN  /\ IF rq.to \notin SchemaStatuses
              THEN /\ lastOp' = mcOp(c, "put:update", "check constraint", rq.from)
                   /\ UNCHANGED missions
              ELSE /\ missions' = [missions EXCEPT ![rq.m].status = rq.to]
                   /\ lastOp' = mcOp(c, "put:update", "ok", rq.from)
           /\ endRequest(c)
    /\ UNCHANGED <<drones, missionLogs, cmds>>
    /\ UNCHANGED <<generated, engine, simulations, runs, interval, fired, pending, emitted, stopped, pauseSnap>>

NextMissionControl ==
    \/ \E c \in Clients, m \in MissionRefs, newState \in Statuses : ChangeStatusCall(c, m, newState)
    \/ \E c \in Clients, m \in MissionRefs : StartMissionCall(c, m)
    \/ \E c \in Clients, m \in MissionRefs : ConfirmCall(c, m)
    \/ \E c \in Clients, m \in MissionRefs, status \in Statuses : UpdateMissionCall(c, m, status)
    \/ \E c \in Clients : SmFind(c)
    \/ \E c \in Clients : SmDrone(c)
    \/ \E c \in Clients : CsFind(c)
    \/ \E c \in Clients : CsUpdateMission(c)
    \/ \E c \in Clients : CsUpdateDrone(c)
    \/ \E c \in Clients : CsLog(c)
    \/ \E c \in Clients : CmFind(c)
    \/ \E c \in Clients : CmUpdate(c)
    \/ \E c \in Clients : UmFind(c)
    \/ \E c \in Clients : UmUpdate(c)

SpecMissionControl == Init /\ [][NextMissionControl]_vars

\* The transition table as the specification lists it
DocumentedTransitions ==
    {<<"planned", "starting">>, <<"planned", "aborted">>,
     <<"starting", "in-progress">>, <<"starting", "aborted">>, <<"starting", "failed">>,
     <<"in-progress", "paused">>, <<"in-progress", "completed">>,
     <<"in-progress", "aborted">>, <<"in-progress", "failed">>,
     <<"paused", "in-progress">>, <<"paused", "aborted">>}

\* C19: _changeStatus goes past its validation only when the pair (status it read,
\* newState) is in the transition table; for any other pair of an existing mission it
\* rejects with "Invalid transition" and ends without a mission update, a drone update
\* or a log write. Every write of a _changeStatus call belongs to a pair of the table.
ChangeStatusFollowsTable ==
    [][/\ (lastOp'.op = "find" /\ lastOp'.res # "Mission not found") =>
            IF lastOp'.trans \in DocumentedTransitions
            THEN /\ lastOp'.res = "valid"
                 /\ requests'[lastOp'.socket].pc = "update"
            ELSE /\ lastOp'.res = "Invalid transition"
                 /\ requests'[lastOp'.socket] = NoRequest
                 /\ UNCHANGED <<missions, drones, missionLogs>>
       /\ (lastOp'.op \in {"update", "drone", "log"}) =>
            lastOp'.trans \in DocumentedTransitions
       /\ (missionLogs' # missionLogs) =>
            /\ lastOp'.op = "log"
            /\ <<missionLogs'[Len(missionLogs')].from, missionLogs'[Len(missionLogs')].to>>
                    \in DocumentedTransitions]_vars

\* C19 witness: after a logged change, a call on a mission in a terminal status was rejected
RejectedFromTerminal ==
    /\ lastOp.op = "find"
    /\ lastOp.res = "Invalid transition"
    /\ lastOp.trans[1] \in Terminal
    /\ Len(missionLogs) > 0
    /\ requests[lastOp.socket] = NoRequest

\* C20: every mission whose status is aborted, completed or failed has a completed_at
\* timestamp.
TerminalHasCompletedAt ==
    \A m \in MissionIds :
        missions[m].status \in Terminal => missions[m].completed_at # "null"

----------------------------------------------------------------------------
\* The cursor, the altitude and the order of the events of a run

\* C28: the waypoint cursor of a run is within 0..(path length) and never decreases,
\* and a run that is FLYING (so a tick that starts in FLYING) has its cursor strictly
\* below the path length: the FLYING target is a waypoint of the path.
CursorStaysWithinPath ==
    [][\A r \in RunIds :
          runs'[r].used =>
              /\ runs'[r].currentWaypointIdx \in 0..Len(runs'[r].flightPath)
              /\ runs'[r].state = "FLYING" =>
                     /\ runs'[r].currentWaypointIdx < Len(runs'[r].flightPath)
                     /\ waypointAt(runs'[r].flightPath, runs'[r].currentWaypointIdx + 1) # <<>>
              /\ runs[r].used => runs'[r].currentWaypointIdx >= runs[r].currentWaypointIdx]_vars

\* C28 witness: a tick that started in FLYING consumed the last waypoint and left FLYING
CursorReachedPathEnd ==
    /\ lastOp.op = "tick"
    /\ lastOp.trans = <<"FLYING", "RTH">>
    /\ Len(runs[lastOp.r].flightPath) > 1
    /\ runs[lastOp.r].currentWaypointIdx = Len(runs[lastOp.r].flightPath)

\* C29: the altitude of every run, as published in telemetry, is within
\* [0, cruise altitude], and a run that has landed (CHARGING) is at altitude 0.
AltitudeWithinRange ==
    \A r \in RunIds :
        runs[r].used =>
            /\ runs[r].altitude \in 0..CruiseAltitude
            /\ runs[r].state = "CHARGING" => runs[r].altitude = 0

\* C30: the 'completed' mission status event is the last event a run publishes:
\* the callback that publishes it publishes nothing after it.
CompletedIsLastEvent ==
    (lastOp.op = "tick" /\ lastOp.res = "completed")
        => lastOp.events[Len(lastOp.events)] = "mission:status completed"

----------------------------------------------------------------------------
\* The mission control service taken alone: the requests of the routes
\* POST /:id/start, /pause, /resume, /abort and the system's confirmMissionStarted,
\* on a fleet whose two missions are assigned the same drone.

\* The statuses pauseMission, resumeMission and abortMission ask for
ServiceTargets == {"paused", "in-progress", "aborted"}

ActiveStatuses == {"starting", "in-progress", "paused"}

InitFleet ==
    /\ missions = [Rows(<<0, 8, 0>>) EXCEPT !["m2"].drone_id = "d1"]
    /\ simulations = [m \in MissionIds |-> 0]
    /\ runs = [r \in RunIds |-> NoRun]
    /\ interval = [r \in RunIds |-> FALSE]
    /\ fired = [r \in RunIds |-> FALSE]
    /\ pending = [s \in Sockets |-> NoCall]
    /\ emitted = [r \in RunIds |-> NoEvents]
    /\ stopped = [m \in MissionIds |-> FALSE]
    /\ pauseSnap = [m \in MissionIds |-> NoSnap]
    /\ lastOp = NoOp
    /\ cmds = 0
    /\ drones = Drones
    /\ missionLogs = <<>>
    /\ requests = [c \in Clients |-> NoRequest]
    /\ generated = NoGenerated
    /\ engine = NoEngine

NextMissionService ==
    \/ \E c \in Clients, m \in MissionRefs, newState \in ServiceTargets :
            ChangeStatusCall(c, m, newState)
    \/ \E c \in Clients, m \in MissionRefs : StartMissionCall(c, m)
    \/ \E c \in Clients, m \in MissionRefs : ConfirmCall(c, m)
    \/ \E c \in Clients : SmFind(c)
    \/ \E c \in Clients : SmDrone(c)
    \/ \E c \in Clients : CsFind(c)
    \/ \E c \in Clients : CsUpdateMission(c)
    \/ \E c \in Clients : CsUpdateDrone(c)
    \/ \E c \in Clients : CsLog(c)
    \/ \E c \in Clients : CmFind(c)
    \/ \E c \in Clients : CmUpdate(c)

SpecMissionService == InitFleet /\ [][NextMissionService]_vars

\* C23: once the status of a mission is aborted, completed or failed, no step of
\* any request changes it.
TerminalStatusIsFinal ==
    [][\A m \in MissionIds :
          missions[m].status \in Terminal => missions'[m].status = missions[m].status]_vars

\* The missions assigned drone d that are in an active status
ActiveMissionsOf(d) ==
    {m \in MissionIds : missions[m].drone_id = d /\ missions[m].status \in ActiveStatuses}

\* C24: no two missions assigned the same drone are active together, and, when no
\* request is in flight, a drone whose status is 'available' has no active mission.
OneActiveMissionPerDrone ==
    \A d \in DroneIds :
        /\ Cardinality(ActiveMissionsOf(d)) <= 1
        /\ ((\A c \in Clients : requests[c] = NoRequest) /\ drones[d].status = "available")
              => ActiveMissionsOf(d) = {}

\* C25: 'completed' can be reached through the service's operations: whenever a
\* mission is in-progress (the one status with a transition to 'completed') and a
\* request can still be received, a request that asks for 'completed' can be made.
CompletedIsReachable ==
    \A m \in MissionIds :
        (/\ missions[m].status = "in-progress"
         /\ cmds < MaxRequests
         /\ \E c \in Clients : requests[c] = NoRequest)
            => ENABLED (/\ NextMissionService
                        /\ \E c \in Clients : /\ requests'[c].m = m
                                              /\ requests'[c].to = "completed")

\* C25 (the other side): under the service's operations no mission is ever completed.
NeverCompleted ==
    \A m \in MissionIds : missions[m].status # "completed"

----------------------------------------------------------------------------
\* Path generation in the plane: PathStrategies.generate (used by
\* startSimulation), flightPatternService.generateWaypoints (used by
\* missionService.generateMissionWaypoints) and the input check of the client's
\* FlightPathGenerator.generate.  Coordinates are integers, one unit being
\* 0.0001 degree; a position of a ring is <<lng, lat>> as in GeoJSON and a
\* waypoint is [lat, lng].

step == 1            \* flightPatternService: step = 0.0001
GridSpacing == 5     \* PathStrategies grid and crosshatch: spacing = 0.0005
HatchSpacing == 3    \* PathStrategies hatch: spacing = 0.0003
LatLimit == 900000   \* flightPatternService: minLat = 90, maxLat = -90
LngLimit == 1800000  \* flightPatternService: minLng = 180, maxLng = -180
MinRingLength == 3   \* FlightPathGenerator: coords.length < 3

SetMin(S) == CHOOSE x \in S : \A y \in S : x <= y
SetMax(S) == CHOOSE x \in S : \A y \in S : x >= y

\* Every server vars as after construction; no request, no simulation
ServerAtRest ==
    /\ missions = Rows(<<0, 8, 0>>)
    /\ simulations = [m \in MissionIds |-> 0]
    /\ runs = [r \in RunIds |-> NoRun]
    /\ interval = [r \in RunIds |-> FALSE]
    /\ fired = [r \in RunIds |-> FALSE]
    /\ pending = [s \in Sockets |-> NoCall]
    /\ emitted = [r \in RunIds |-> NoEvents]
    /\ stopped = [m \in MissionIds |-> FALSE]
    /\ pauseSnap = [m \in MissionIds |-> NoSnap]
    /\ lastOp = NoOp
    /\ cmds = 0
    /\ drones = Drones
    /\ missionLogs = <<>>
    /\ requests = [c \in Clients |-> NoRequest]

serverVars == <<missions, simulations, runs, interval, fired, pending, emitted, stopped,
                pauseSnap, lastOp, cmds, drones, missionLogs, requests>>

\* A GeoJSON polygon with the given rings
Polygon(rings) == [type |-> "Polygon", hasCoordinates |-> TRUE, coordinates |-> rings]

\* The closed ring of the axis-aligned square of half side h around (lng, lat)
SquareRing(lng, lat, h) ==
    <<<<lng - h, lat - h>>, <<lng + h, lat - h>>, <<lng + h, lat + h>>,
      <<lng - h, lat + h>>, <<lng - h, lat - h>>>>

\* The vertices of the outer ring
ringOf(surveyArea) ==
    IF surveyArea.hasCoordinates /\ Len(surveyArea.coordinates) > 0
    THEN surveyArea.coordinates[1] ELSE <<>>

\* turf.bbox: [minX, minY, maxX, maxY] over every position; without positions
\* it is [Infinity, Infinity, -Infinity, -Infinity] (empty)
turfBbox(surveyArea) ==
    LET ring == ringOf(surveyArea)
        xs == {ring[i][1] : i \in 1..Len(ring)}
        ys == {ring[i][2] : i \in 1..Len(ring)}
    IN  IF Len(ring) = 0
        THEN [empty |-> TRUE, minX |-> 0, minY |-> 0, maxX |-> 0, maxY |-> 0]
        ELSE [empty |-> FALSE, minX |-> SetMin(xs), minY |-> SetMin(ys),
              maxX |-> SetMax(xs), maxY |-> SetMax(ys)]

\* A sweep that goes one line beyond the far side
sweepOvershoots(x, far) == x <= far + 1

\* The loop conditions `x <= bbox[2]`, `y <= bbox[3]`, `lat <= maxLat`
sweepContinues(x, far) == x <= far

RECURSIVE verticalPasses(_, _, _, _)
\* while (x <= bbox[2]) { push (yStart, x), (yEnd, x); x += spacing; movingUp = !movingUp }
verticalPasses(x, movingUp, box, spacing) ==
    IF box.empty \/ ~sweepContinues(x, box.maxX) THEN <<>>
    ELSE <<[lat |-> IF movingUp THEN box.minY ELSE box.maxY, lng |-> x],
           [lat |-> IF movingUp THEN box.maxY ELSE box.minY, lng |-> x]>>
         \o verticalPasses(x + spacing, ~movingUp, box, spacing)

RECURSIVE horizontalPasses(_, _, _, _)
\* while (y <= bbox[3]) { push (y, xStart), (y, xEnd); y += spacing; movingRight = !movingRight }
horizontalPasses(y, movingRight, box, spacing) ==
    IF box.empty \/ ~sweepContinues(y, box.maxY) THEN <<>>
    ELSE <<[lat |-> y, lng |-> IF movingRight THEN box.minX ELSE box.maxX],
           [lat |-> y, lng |-> IF movingRight THEN box.maxX ELSE box.minX]>>
         \o horizontalPasses(y + spacing, ~movingRight, box, spacing)

\* coords.map(c => ({ lat: c[1], lng: c[0] }))
ringWaypoints(ring) == [i \in 1..Len(ring) |-> [lat |-> ring[i][2], lng |-> ring[i][1]]]

Returned(waypoints) == [waypoints |-> waypoints, threw |-> FALSE]
Thrown == [waypoints |-> <<>>, threw |-> TRUE]

planeGridPath(surveyArea, spacing) ==
    LET box == turfBbox(surveyArea)
    IN  Returned(verticalPasses(box.minX, TRUE, box, spacing))

planeCrosshatchPath(surveyArea, spacing) ==
    LET box == turfBbox(surveyArea)
    IN  Returned(horizontalPasses(box.minY, TRUE, box, spacing)
                    \o verticalPasses(box.minX, TRUE, box, spacing))

\* surveyArea.coordinates[0].map(...): without a ring the TypeError is caught, []
planePerimeterPath(surveyArea) ==
    IF surveyArea.type = "Polygon" /\ Len(surveyArea.coordinates) > 0
    THEN Returned(ringWaypoints(surveyArea.coordinates[1]))
    ELSE Returned(<<>>)

planeHatchPath(surveyArea) == planeGridPath(surveyArea, HatchSpacing)

\* PathStrategies.generate(type, surveyArea)
planeGenerate(type, surveyArea) ==
    IF ~surveyArea.hasCoordinates THEN Returned(<<>>)
    ELSE CASE type = "grid" -> planeGridPath(surveyArea, GridSpacing)
           [] type = "crosshatch" -> planeCrosshatchPath(surveyArea, GridSpacing)
           [] type = "perimeter" -> planePerimeterPath(surveyArea)
           [] type = "hatch" -> planeHatchPath(surveyArea)
           [] type = "waypoint" ->
                IF Len(surveyArea.coordinates) > 0
                THEN Returned(ringWaypoints(surveyArea.coordinates[1]))
                ELSE Thrown
           [] OTHER -> planeGridPath(surveyArea, GridSpacing)

RECURSIVE eastWestPasses(_, _, _)
\* for (lat = minLat; lat <= maxLat; lat += step), goingEast alternating
eastWestPasses(lat, goingEast, box) ==
    IF ~sweepContinues(lat, box.maxY) THEN <<>>
    ELSE <<[lat |-> lat, lng |-> IF goingEast THEN box.minX ELSE box.maxX],
           [lat |-> lat, lng |-> IF goingEast THEN box.maxX ELSE box.minX]>>
         \o eastWestPasses(lat + step, ~goingEast, box)

\* flightPatternService.generateWaypoints(surveyArea, pattern, altitude, overlap)
generateWaypoints(surveyArea, pattern) ==
    IF ~surveyArea.hasCoordinates \/ Len(surveyArea.coordinates) = 0 THEN Returned(<<>>)
    ELSE LET polygon == surveyArea.coordinates[1]
             lats == {polygon[i][2] : i \in 1..Len(polygon)}
             lngs == {polygon[i][1] : i \in 1..Len(polygon)}
             box == [empty |-> FALSE,
                     minY |-> SetMin(lats \cup {LatLimit}),
                     maxY |-> SetMax(lats \cup {0 - LatLimit}),
                     minX |-> SetMin(lngs \cup {LngLimit}),
                     maxX |-> SetMax(lngs \cup {0 - LngLimit})]
         IN  IF pattern = "perimeter" THEN Returned(ringWaypoints(polygon))
             ELSE IF pattern \in {"crosshatch", "grid"}
             THEN Returned(eastWestPasses(box.minY, TRUE, box))
             ELSE Returned(<<>>)

\* FlightPathGenerator.generate: the checks before a path is built return []
pathGeneratorRejects(surveyArea) ==
    \/ ~surveyArea.hasCoordinates
    \/ Len(surveyArea.coordinates) = 0
    \/ Len(surveyArea.coordinates[1]) < MinRingLength

\* Inputs
MaxHalfSide == 4
Centres == {0 - 7, 0, 12}
HalfSides == {1, 2, MaxHalfSide}
Patterns == {"grid", "crosshatch", "perimeter", "hatch", "waypoint", "spiral"}

Squares == {Polygon(<<SquareRing(lng, lat, h)>>) : lng \in Centres, lat \in Centres, h \in HalfSides}

\* Survey areas whose ring has fewer than three vertices
SmallAreas ==
    {[type |-> "Polygon", hasCoordinates |-> FALSE, coordinates |-> <<>>],
     Polygon(<<>>),
     Polygon(<< <<>> >>),
     Polygon(<< << <<3, 4>> >> >>),
     Polygon(<< << <<3, 4>>, <<9, 4>> >> >>)}

InitPaths ==
    /\ ServerAtRest
    /\ engine = NoEngine
    /\ generated \in {[generator |-> "none", pattern |-> p, surveyArea |-> a, done |-> FALSE,
                       waypoints |-> <<>>, threw |-> FALSE] :
                          p \in Patterns, a \in Squares \cup SmallAreas}

\* PathStrategies.generate is called
StrategiesGenerate ==
    /\ ~generated.done
    /\ \E result \in {planeGenerate(generated.pattern, generated.surveyArea)} :
          generated' = [generated EXCEPT !.generator = "PathStrategies", !.done = TRUE,
                                         !.waypoints = result.waypoints,
                                         !.threw = result.threw]
    /\ UNCHANGED engine
    /\ UNCHANGED serverVars

\* flightPatternService.generateWaypoints is called
GenerateWaypoints ==
    /\ ~generated.done
    /\ \E result \in {generateWaypoints(generated.surveyArea, generated.pattern)} :
          generated' = [generated EXCEPT !.generator = "flightPatternService", !.done = TRUE,
                                         !.waypoints = result.waypoints,
                                         !.threw = result.threw]
    /\ UNCHANGED engine
    /\ UNCHANGED serverVars

NextPaths ==
    \/ StrategiesGenerate
    \/ GenerateWaypoints

SpecPaths == InitPaths /\ [][NextPaths]_vars

\* C21: for a square survey polygon and any pattern, every waypoint either
\* generator produces lies within the bounding box of the polygon.
WaypointsWithinBoundingBox ==
    (generated.done /\ generated.surveyArea \in Squares) =>
        LET ring == generated.surveyArea.coordinates[1]
            lngs == {ring[i][1] : i \in 1..Len(ring)}
            lats == {ring[i][2] : i \in 1..Len(ring)}
        IN  \A i \in 1..Len(generated.waypoints) :
                /\ generated.waypoints[i].lng \in SetMin(lngs)..SetMax(lngs)
                /\ generated.waypoints[i].lat \in SetMin(lats)..SetMax(lats)

\* C21 witness: a crosshatch of several sweeps over a square, reaching its far sides
CrosshatchCoversSquare ==
    /\ generated.done
    /\ generated.generator = "PathStrategies"
    /\ generated.pattern = "crosshatch"
    /\ generated.surveyArea = Polygon(<<SquareRing(12, 0 - 7, MaxHalfSide)>>)
    /\ Len(generated.waypoints) >= 8
    /\ \E i \in 1..Len(generated.waypoints) : generated.waypoints[i].lng = 12 + MaxHalfSide
    /\ \E i \in 1..Len(generated.waypoints) : generated.waypoints[i].lat = 0 - 7 + MaxHalfSide

\* C22: when the ring of the survey area has fewer than 3 vertices, path
\* generation returns an empty sequence and raises no exception, for every
\* pattern, so that startSimulation fails with 'Could not generate flight path';
\* the client's generator rejects the area as well.
FewVerticesGiveEmptyPath ==
    (generated.done /\ Len(ringOf(generated.surveyArea)) < MinRingLength) =>
        /\ ~generated.threw
        /\ generated.waypoints = <<>>
        /\ startOutcome(TRUE, generated.waypoints) = "Could not generate flight path"
        /\ pathGeneratorRejects(generated.surveyArea)

----------------------------------------------------------------------------
\* The client's FlightSimulationEngine: one instance, initialized with a flight
\* path, driven by calls of start, pause, resume, stop, triggerRTH and
\* startCharging and by the callbacks of its setInterval timers.  The position
\* is not modelled: whether an update reaches its target waypoint, whether a
\* waypoint is a significant turn, whether a hover has lasted long enough and by
\* how much the battery changes depend on the wall-clock time between updates
\* and on the geometry of the path, and are inputs of the update.  The battery
\* is in percent.

MaxTimers == 3              \* timers of one engine that are active together
EngineMinCharge == 20       \* minChargeToFly
EngineCriticalBattery == 10 \* criticalBatteryLevel
EngineBatteryFull == 100
RthSteps == 50              \* calculateRTHPath: steps
HoverEvery == 10            \* shouldHoverAtWaypoint: currentWaypointIndex % 10
PathLengths == {0, 3}       \* flightPath.length of the engine's path
BatteryChanges == {0, 30}   \* drainRate * deltaTime or chargingRate * deltaTime of one update

TimerIds == 1..MaxTimers

\* reset() and initialize(missionData, flightPath)
newEngine(pathLength) ==
    [constructed |-> TRUE, droneState |-> "idle", missionState |-> "planned",
     rthTriggered |-> FALSE, currentWaypointIndex |-> 0, pathLength |-> pathLength,
     rthLength |-> 0, battery |-> EngineBatteryFull, hoverStartTime |-> FALSE,
     simulationInterval |-> 0, timers |-> {},
     missionCompleted |-> FALSE, rthCompleted |-> FALSE, stopCalled |-> FALSE,
     quiet |-> FALSE, last |-> "initialize"]

\* clearInterval(this.simulationInterval); this.simulationInterval = null
clearTimer(e) ==
    [e EXCEPT !.timers = @ \ {e.simulationInterval}, !.simulationInterval = 0]

\* this.simulationInterval = setInterval(() => this.update(), updateInterval):
\* the previous handle is overwritten, its timer is not cleared
setTimer(e) ==
    LET id == SetMin(TimerIds \ e.timers)
    IN  [e EXCEPT !.timers = @ \cup {id}, !.simulationInterval = id]

\* calculateRTHPath().length: steps + 1 points, or none without a position
rthPathLength(e) == IF e.pathLength = 0 THEN 0 ELSE RthSteps + 1

\* triggerRTH(reason)
engineTriggerRTH(e) ==
    IF e.rthTriggered THEN e
    ELSE [e EXCEPT !.rthTriggered = TRUE, !.missionState = "rth-active",
                   !.droneState = "returning", !.rthLength = rthPathLength(e),
                   !.currentWaypointIndex = 0]

\* start(): "error" when the battery is low or there is no path
engineStart(e) ==
    IF e.battery < EngineMinCharge \/ e.pathLength = 0 THEN e
    ELSE setTimer([e EXCEPT !.droneState = "flying", !.missionState = "in-progress",
                            !.quiet = FALSE, !.stopCalled = FALSE])

\* pause()
enginePause(e) ==
    IF e.missionState # "in-progress" THEN e
    ELSE [clearTimer(e) EXCEPT !.droneState = "hovering", !.missionState = "paused",
                               !.quiet = TRUE]

\* resume()
engineResume(e) ==
    IF e.missionState # "paused" THEN e
    ELSE setTimer([e EXCEPT !.droneState = "flying", !.missionState = "in-progress",
                            !.quiet = FALSE])

\* stop()
engineStop(e) ==
    [clearTimer(e) EXCEPT !.droneState = "idle", !.missionState = "aborted",
                          !.quiet = TRUE, !.stopCalled = TRUE]

\* startCharging()
engineStartCharging(e) ==
    LET charging == [e EXCEPT !.droneState = "charging"]
    IN  IF e.simulationInterval = 0 THEN setTimer([charging EXCEPT !.quiet = FALSE])
        ELSE charging

\* completeMission()
completeMission(e) ==
    [engineTriggerRTH([clearTimer(e) EXCEPT !.missionState = "completed"])
        EXCEPT !.missionCompleted = TRUE]

\* completeRTH()
completeRTH(e) ==
    [setTimer([clearTimer(e) EXCEPT !.droneState = "charging"]) EXCEPT !.rthCompleted = TRUE]

\* shouldHoverAtWaypoint(): every 10th waypoint, or a significant turn
shouldHoverAtWaypoint(e, turn) ==
    \/ e.currentWaypointIndex % HoverEvery = 0
    \/ /\ turn
       /\ ~(e.currentWaypointIndex < 1 \/ e.currentWaypointIndex >= e.pathLength - 1)

\* startHover()
startHover(e) == [e EXCEPT !.droneState = "hovering", !.hoverStartTime = TRUE]

\* updateFlight(deltaTime)
engineUpdateFlight(e, reached, turn) ==
    IF e.currentWaypointIndex >= e.pathLength THEN completeMission(e)
    ELSE IF reached
    THEN LET next == [e EXCEPT !.currentWaypointIndex = @ + 1]
         IN  IF shouldHoverAtWaypoint(next, turn) THEN startHover(next) ELSE next
    ELSE e

\* updateRTH(deltaTime)
engineUpdateRTH(e, reached) ==
    IF e.currentWaypointIndex >= e.rthLength THEN completeRTH(e)
    ELSE IF reached THEN [e EXCEPT !.currentWaypointIndex = @ + 1]
    ELSE e

\* updateHover(deltaTime), endHover()
engineUpdateHover(e, over) ==
    IF ~e.hoverStartTime THEN e
    ELSE IF over THEN [e EXCEPT !.droneState = "flying", !.hoverStartTime = FALSE]
    ELSE e

\* updateBattery(deltaTime)
engineUpdateBattery(e, change) ==
    IF e.droneState = "charging"
    THEN LET battery == Min(EngineBatteryFull, e.battery + change)
         IN  [e EXCEPT !.battery = battery,
                       !.droneState = IF battery >= EngineBatteryFull THEN "ready" ELSE @]
    ELSE IF e.droneState \in {"idle", "ready"} THEN e
    ELSE [e EXCEPT !.battery = Max(0, e.battery - change)]

\* checkBatteryStatus(): the critical level triggers RTH
checkBatteryStatus(e) ==
    IF e.battery <= EngineCriticalBattery /\ ~e.rthTriggered THEN engineTriggerRTH(e) ELSE e

\* update()
engineUpdate(e, reached, turn, over, change) ==
    LET checked == checkBatteryStatus(e)
        moved == IF checked.rthTriggered THEN engineUpdateRTH(checked, reached)
                 ELSE IF checked.droneState = "flying"
                 THEN engineUpdateFlight(checked, reached, turn)
                 ELSE IF checked.droneState = "hovering"
                 THEN engineUpdateHover(checked, over)
                 ELSE checked
    IN  engineUpdateBattery(moved, change)

InitEngine ==
    /\ ServerAtRest
    /\ generated = NoGenerated
    /\ \E pathLength \in PathLengths : engine = newEngine(pathLength)

EngineStart ==
    /\ Cardinality(engine.timers) < MaxTimers
    /\ engine' = [engineStart(engine) EXCEPT !.last = "start"]
    /\ UNCHANGED generated
    /\ UNCHANGED serverVars

EnginePause ==
    /\ engine' = [enginePause(engine) EXCEPT !.last = "pause"]
    /\ UNCHANGED generated
    /\ UNCHANGED serverVars

EngineResume ==
    /\ Cardinality(engine.timers) < MaxTimers
    /\ engine' = [engineResume(engine) EXCEPT !.last = "resume"]
    /\ UNCHANGED generated
    /\ UNCHANGED serverVars

EngineStop ==
    /\ engine' = [engineStop(engine) EXCEPT !.last = "stop"]
    /\ UNCHANGED generated
    /\ UNCHANGED serverVars

EngineTriggerRTH ==
    /\ engine' = [engineTriggerRTH(engine) EXCEPT !.last = "triggerRTH"]
    /\ UNCHANGED generated
    /\ UNCHANGED serverVars

EngineStartCharging ==
    /\ Cardinality(engine.timers) < MaxTimers
    /\ engine' = [engineStartCharging(engine) EXCEPT !.last = "startCharging"]
    /\ UNCHANGED generated
    /\ UNCHANGED serverVars

\* The callback of an active timer
EngineUpdate(t, reached, turn, over, change) ==
    /\ t \in engine.timers
    /\ engine' = [engineUpdate(engine, reached, turn, over, change) EXCEPT !.last = "update"]
    /\ UNCHANGED generated
    /\ UNCHANGED serverVars

NextEngine ==
    \/ EngineStart
    \/ EnginePause
    \/ EngineResume
    \/ EngineStop
    \/ EngineTriggerRTH
    \/ EngineStartCharging
    \/ \E t \in TimerIds, reached \in BOOLEAN, turn \in BOOLEAN, over \in BOOLEAN,
          change \in BatteryChanges : EngineUpdate(t, reached, turn, over, change)

SpecEngine == InitEngine /\ [][NextEngine]_vars

\* C26: from 'missionCompleted' until 'rthCompleted' the engine keeps ticking
\* (it has an active timer), unless stop was called: so the return home proceeds
\* and 'rthCompleted' follows.
ReturnHomeKeepsTicking ==
    (engine.missionCompleted /\ ~engine.rthCompleted /\ ~engine.stopCalled)
        => engine.timers # {}

\* C27: the engine has at most one active timer, and after pause() or stop()
\* has returned no timer is active until resume, start or startCharging is called.
EngineHasOneTimer ==
    /\ Cardinality(engine.timers) <= 1
    /\ engine.quiet => engine.timers = {}

====
